---- MODULE Spec2Model ----
(***************************************************************************)
(* A model of blink.py: the colour type RGB, the pixel buffer (a Python    *)
(* list of packed colours with a show() operation), the primitive effects  *)
(* and the animated quicksort, and the pride show that sequences them.     *)
(*                                                                         *)
(* Python positions are kept 0-based in the model's indices (i, j,         *)
(* from_index, to_index, positions); a TLA+ sequence is 1-based, so the    *)
(* buffer is read at index + 1.                                            *)
(***************************************************************************)
EXTENDS Integers, Sequences, FiniteSets

VARIABLES
    strip,      \* the pixel buffer: a sequence of packed colours
    strip0,     \* the buffer contents when the running effect was called
    frame,      \* the buffer contents at the last strip.show()
    renders,    \* number of strip.show() calls of the running effect
    exchanges,  \* number of exchanges of the running quicksort
    err,        \* "none", or the exception that ended the program
    effect,     \* the function that is running, "idle" between two calls
    pc,         \* the statement the running effect is at (quicksort: see stack)
    lt_func,    \* the comparator of the running quicksort
    stack,      \* the call stack of quicksort: one record per active call
    oob,        \* TRUE once a quicksort call touched an index outside its range
    positions,  \* random_rain / random_wipe: the shuffled positions
    k,          \* the loop counter of random_rain, random_wipe and wipe
    pixels,     \* the per-position targets (pride's list), << >> when None
    writes,     \* random_rain: how often each position was written
    args,       \* slow_transition: its arguments c and c_next, << >> when None
    c,          \* slow_transition: the current colour
    c_next,     \* slow_transition: the target colour
    c_from,     \* slow_transition: the colour of its first frame
    wipe_c,     \* random_wipe: the packed colour it writes
    steps,      \* slow_transition: number of passes of its while loop
    value,      \* RGB.random: the local variable value
    returned,   \* RGB.random: the packed values it has returned
    rejected,   \* RGB.random: the packed values it has drawn and discarded
    step        \* pride: the number of calls made so far

vars == << strip, strip0, frame, renders, exchanges, err, effect, pc, lt_func,
           stack, oob, positions, k, pixels, writes, args, c, c_next, c_from,
           wipe_c, steps, value, returned, rejected, step >>

rainVars == << positions, pixels >>
transVars == << args, c, c_next, c_from >>
wipeVars == << wipe_c >>
randVars == << value, returned, rejected >>

\* what quicksort never assigns (lt_func apart)
notSort ==
    << strip0, pc, rainVars, writes, k, transVars, steps, wipeVars, randVars,
       step >>

(***************************************************************************)
(* Bounds of the model.                                                    *)
(***************************************************************************)
MaxLen == 4         \* longest buffer sorted under the ordering comparators
MaxLenAny == 3      \* longest buffer sorted under arbitrary comparators
MaxLenFalse == 5    \* longest buffer sorted under the constant-false comparator
MaxLenRain == 3     \* longest buffer of the rain runs
MaxLenTrans == 3    \* longest buffer of the transition runs
MaxChan == 2        \* channel values of the transition runs are 0..MaxChan
MaxLenPride == 3    \* longest buffer of the pride runs

(***************************************************************************)
(* The palette of the pride show.                                          *)
(***************************************************************************)
FLAG_COLORS ==
    << 16777215,   \* 0xFFFFFF
       16165560,   \* 0xF6AAB8
       6344182,    \* 0x60CDF6
       6766616,    \* 0x674018
       329480,     \* 0x050708
       15015461,   \* 0xE51E25
       16157983,   \* 0xF68D1F
       16379412,   \* 0xF9EE14
       884800,     \* 0x0D8040
       4022188,    \* 0x3D5FAC
       7613061 >>  \* 0x742A85

Range(s) == { s[n] : n \in 1..Len(s) }

Palette == Range(FLAG_COLORS)

(***************************************************************************)
(* RGB: three channels, packed into 24 bits.                               *)
(***************************************************************************)
RGB(r, g, b) == [r |-> r, g |-> g, b |-> b]

from_int(v) ==
    RGB((v \div 65536) % 256, (v \div 256) % 256, v % 256)

to_int(x) == x.r * 65536 + x.g * 256 + x.b

invert(x) == from_int(16777215 - to_int(x))

Max3(x, y, z) ==
    IF x >= y /\ x >= z THEN x ELSE IF y >= z THEN y ELSE z

Min3(x, y, z) ==
    IF x <= y /\ x <= z THEN x ELSE IF y <= z THEN y ELSE z

(***************************************************************************)
(* RGB.hsi, as exact fractions: hue = HueNum / HueDen, saturation =        *)
(* SatNum / SatDen, intensity = IntNum / 3. The code computes them in      *)
(* floating point; the fractions have denominators below 766, far apart    *)
(* compared with a rounding error, so the order of two hues is the same.   *)
(***************************************************************************)
HueDen(x) ==
    LET range_ == Max3(x.r, x.g, x.b) - Min3(x.r, x.g, x.b)
    IN  IF range_ # 0 THEN range_ ELSE 1

HueNum(x) ==
    LET max_ == Max3(x.r, x.g, x.b)
        range_ == max_ - Min3(x.r, x.g, x.b)
    IN  IF range_ # 0
        THEN IF max_ = x.r THEN (x.g - x.b) % (6 * range_)
             ELSE IF max_ = x.g THEN (x.b - x.r) + 2 * range_
             ELSE (x.r - x.g) + 4 * range_
        ELSE 0

IntNum(x) == x.r + x.g + x.b

SatDen(x) == IF IntNum(x) = 0 THEN 1 ELSE IntNum(x)

SatNum(x) ==
    IF IntNum(x) = 0 THEN 0 ELSE IntNum(x) - 3 * Min3(x.r, x.g, x.b)

\* a.hsi < b.hsi: tuples compare lexicographically
HsiLt(a, b) ==
    LET ha == HueNum(a) * HueDen(b)
        hb == HueNum(b) * HueDen(a)
        sa == SatNum(a) * SatDen(b)
        sb == SatNum(b) * SatDen(a)
    IN  \/ ha < hb
        \/ ha = hb /\ sa < sb
        \/ ha = hb /\ sa = sb /\ IntNum(a) < IntNum(b)

\* x > y on two RGB tuples
TupleGt(a, b) ==
    \/ a.r > b.r
    \/ a.r = b.r /\ a.g > b.g
    \/ a.r = b.r /\ a.g = b.g /\ a.b > b.b

\* FLAG_COLORS.index(v); the caller checks v \in Palette first
FlagIndex(v) ==
    CHOOSE n \in 1..Len(FLAG_COLORS) :
        /\ FLAG_COLORS[n] = v
        /\ \A m \in 1..(n - 1) : FLAG_COLORS[m] # v

(***************************************************************************)
(* Comparators. A comparator is a record; kind names one of the lambdas    *)
(* the shows pass to quicksort, and kind "rel" is an arbitrary boolean     *)
(* function of two colours, given as the set of pairs it is true of.       *)
(***************************************************************************)
Cmp(kind) == [kind |-> kind, rel |-> {}]

CmpRel(rel) == [kind |-> "rel", rel |-> rel]

\* the comparator raises: list.index of a value that is not in the list
LtRaises(f, a, b) ==
    /\ f.kind = "flag_index"
    /\ (to_int(a) \notin Palette \/ to_int(b) \notin Palette)

Lt(f, a, b) ==
    CASE f.kind = "hsi" -> HsiLt(a, b)
      [] f.kind = "int_lt" -> to_int(a) < to_int(b)
      [] f.kind = "int_gt" -> to_int(a) > to_int(b)
      [] f.kind = "tuple_gt" -> TupleGt(a, b)
      [] f.kind = "false" -> FALSE
      [] f.kind = "flag_index" ->
            FlagIndex(to_int(a)) < FlagIndex(to_int(b))
      [] f.kind = "rel" -> <<a, b>> \in f.rel


(***************************************************************************)
(* The buffer: a Python list. A negative index counts from the end, an     *)
(* index outside [-len, len) raises IndexError.                            *)
(***************************************************************************)
IndexOk(s, p) == -Len(s) <= p /\ p <= Len(s) - 1

GetItem(s, p) == IF p >= 0 THEN s[p + 1] ELSE s[Len(s) + p + 1]

SetItem(s, p, v) ==
    [s EXCEPT ![IF p >= 0 THEN p + 1 ELSE Len(s) + p + 1] = v]

\* Exchange as two assignments without the temporary: strip[i] is lost
ExchangeLossy(s, i, j) == SetItem(SetItem(s, i, GetItem(s, j)), j, GetItem(s, j))

\* strip[i], strip[j] = strip[j], strip[i]
Exchange(s, i, j) == SetItem(SetItem(s, i, GetItem(s, j)), j, GetItem(s, i))

Running(name) == effect = name /\ err = "none"

(***************************************************************************)
(* quicksort. Each active call is a record of its arguments and locals     *)
(* and of the statement it is at; the running call is the last of stack.   *)
(***************************************************************************)
\* the recursion limit of the interpreter, scaled to the model's buffers
MaxDepth == 6

Call(from_index, to_index) ==
    [from_index |-> from_index, to_index |-> to_index,
     i |-> from_index, j |-> to_index, pivot |-> from_int(0), pc |-> "entry"]

\* quicksort(strip, lt_func): to_index is None and becomes len(strip) - 1
TopCall(s) == Call(0, Len(s) - 1)

top == stack[Len(stack)]

SetTop(rec) == [stack EXCEPT ![Len(stack)] = rec]

Pop == SubSeq(stack, 1, Len(stack) - 1)

\* PivotPositions drawing from the start of the buffer: randint(0, to_index)
PivotPositionsWide(from_index, to_index) == 0..to_index

\* random.randint(from_index, to_index)
PivotPositions(from_index, to_index) == from_index..to_index

\* FirstRange not narrowed to j: the call repeats its own range
FirstRangeWhole(f) == << f.from_index, f.to_index >>

\* SecondRange starting one position late
SecondRangeSkip(f) == << f.i + 1, f.to_index >>

\* the arguments of the two recursive calls
FirstRange(f) == << f.from_index, f.j >>

SecondRange(f) == << f.i, f.to_index >>

\* Advance that leaves j where it is
AdvanceOneSided(f) == [f EXCEPT !.i = f.i + 1, !.pc = "loop"]

\* i, j = i + 1, j - 1
Advance(f) == [f EXCEPT !.i = f.i + 1, !.j = f.j - 1, !.pc = "loop"]

InCall(f, p) == f.from_index <= p /\ p <= f.to_index

QsReturn ==
    /\ stack' = Pop
    /\ effect' = IF Len(stack) = 1 THEN "idle" ELSE effect

\* lines 186-191: the base case, else the pivot
QsEntry ==
    /\ Running("quicksort") /\ stack # << >> /\ top.pc = "entry"
    /\ IF top.from_index >= top.to_index
       THEN QsReturn /\ UNCHANGED << err, oob >>
       ELSE \E p \in PivotPositions(top.from_index, top.to_index) :
              IF IndexOk(strip, p)
              THEN /\ stack' = SetTop([top EXCEPT
                                         !.pivot = from_int(GetItem(strip, p)),
                                         !.pc = "loop"])
                   /\ oob' = (oob \/ ~InCall(top, p))
                   /\ UNCHANGED << err, effect >>
              ELSE /\ err' = "IndexError"
                   /\ UNCHANGED << stack, oob, effect >>
    /\ UNCHANGED << strip, frame, renders, exchanges, lt_func, notSort >>

\* line 193: while i <= j
QsLoop ==
    /\ Running("quicksort") /\ stack # << >> /\ top.pc = "loop"
    /\ stack' = SetTop([top EXCEPT
                          !.pc = IF top.i <= top.j THEN "scan_i" ELSE "rec1"])
    /\ UNCHANGED << strip, frame, renders, exchanges, err, effect, lt_func, oob,
                    notSort >>

\* lines 194-195: while lt_func(RGB.from_int(strip[i]), pivot): i += 1
QsScanI ==
    /\ Running("quicksort") /\ stack # << >> /\ top.pc = "scan_i"
    /\ IF ~IndexOk(strip, top.i)
       THEN err' = "IndexError" /\ UNCHANGED << stack, oob >>
       ELSE LET x == from_int(GetItem(strip, top.i))
            IN  /\ oob' = (oob \/ ~InCall(top, top.i))
                /\ IF LtRaises(lt_func, x, top.pivot)
                   THEN err' = "ValueError" /\ UNCHANGED stack
                   ELSE /\ UNCHANGED err
                        /\ stack' = SetTop(
                             IF Lt(lt_func, x, top.pivot)
                             THEN [top EXCEPT !.i = top.i + 1]
                             ELSE [top EXCEPT !.pc = "scan_j"])
    /\ UNCHANGED << strip, frame, renders, exchanges, effect, lt_func, notSort >>

\* lines 196-197: while lt_func(pivot, RGB.from_int(strip[j])): j -= 1
QsScanJ ==
    /\ Running("quicksort") /\ stack # << >> /\ top.pc = "scan_j"
    /\ IF ~IndexOk(strip, top.j)
       THEN err' = "IndexError" /\ UNCHANGED << stack, oob >>
       ELSE LET x == from_int(GetItem(strip, top.j))
            IN  /\ oob' = (oob \/ ~InCall(top, top.j))
                /\ IF LtRaises(lt_func, top.pivot, x)
                   THEN err' = "ValueError" /\ UNCHANGED stack
                   ELSE /\ UNCHANGED err
                        /\ stack' = SetTop(
                             IF Lt(lt_func, top.pivot, x)
                             THEN [top EXCEPT !.j = top.j - 1]
                             ELSE [top EXCEPT !.pc = "if"])
    /\ UNCHANGED << strip, frame, renders, exchanges, effect, lt_func, notSort >>

\* lines 199-200: if i <= j: strip[i], strip[j] = strip[j], strip[i]
QsExchange ==
    /\ Running("quicksort") /\ stack # << >> /\ top.pc = "if"
    /\ IF top.i <= top.j
       THEN /\ strip' = Exchange(strip, top.i, top.j)
            /\ exchanges' = exchanges + 1
            /\ oob' = (oob \/ ~InCall(top, top.i) \/ ~InCall(top, top.j))
            /\ stack' = SetTop([top EXCEPT !.pc = "show"])
       ELSE /\ stack' = SetTop([top EXCEPT !.pc = "loop"])
            /\ UNCHANGED << strip, exchanges, oob >>
    /\ UNCHANGED << frame, renders, err, effect, lt_func, notSort >>

\* QsShow that does not render an exchange of a position with itself
QsShowSkipSelf ==
    /\ Running("quicksort") /\ stack # << >> /\ top.pc = "show"
    /\ frame' = strip
    /\ renders' = IF top.i = top.j THEN renders ELSE renders + 1
    /\ stack' = SetTop(Advance(top))
    /\ UNCHANGED << strip, exchanges, err, effect, lt_func, oob, notSort >>

\* lines 201-203: strip.show(); time.sleep(sleep); i, j = i + 1, j - 1
QsShow ==
    /\ Running("quicksort") /\ stack # << >> /\ top.pc = "show"
    /\ frame' = strip
    /\ renders' = renders + 1
    /\ stack' = SetTop(Advance(top))
    /\ UNCHANGED << strip, exchanges, err, effect, lt_func, oob,
                    notSort >>

\* a recursive call: one more frame, or RecursionError at the limit
Recurse(range, after) ==
    IF Len(stack) >= MaxDepth
    THEN err' = "RecursionError" /\ UNCHANGED stack
    ELSE /\ stack' = Append(SetTop([top EXCEPT !.pc = after]),
                            Call(range[1], range[2]))
         /\ UNCHANGED err

\* line 204: quicksort(..., from_index=from_index, to_index=j)
QsFirst ==
    /\ Running("quicksort") /\ stack # << >> /\ top.pc = "rec1"
    /\ Recurse(FirstRange(top), "rec2")
    /\ UNCHANGED << strip, frame, renders, exchanges, effect, lt_func, oob,
                    notSort >>

\* line 205: quicksort(..., from_index=i, to_index=to_index)
QsSecond ==
    /\ Running("quicksort") /\ stack # << >> /\ top.pc = "rec2"
    /\ Recurse(SecondRange(top), "ret")
    /\ UNCHANGED << strip, frame, renders, exchanges, effect, lt_func, oob,
                    notSort >>

\* the end of the function body
QsExit ==
    /\ Running("quicksort") /\ stack # << >> /\ top.pc = "ret"
    /\ QsReturn
    /\ UNCHANGED << strip, frame, renders, exchanges, err, lt_func, oob,
                    notSort >>

QsNext ==
    \/ QsEntry \/ QsLoop \/ QsScanI \/ QsScanJ \/ QsExchange \/ QsShow
    \/ QsFirst \/ QsSecond \/ QsExit

(***************************************************************************)
(* RGB.random: draw until some channel is at least 20. RandintSamples      *)
(* stands for the range of random.randint(0, 0xFFFFFF): values on both     *)
(* sides of the test of line 87.                                           *)
(***************************************************************************)
RandintSamples ==
    { 0,           \* 0x000000
      1250067,     \* 0x131313
      20,          \* 0x000014
      1310720,     \* 0x140000
      16777215 }   \* 0xFFFFFF

\* Dark with any() in place of all()
DarkAny(x) == x.r < 20 \/ x.g < 20 \/ x.b < 20

\* all(x < 20 for x in (value.r, value.g, value.b))
Dark(x) == x.r < 20 /\ x.g < 20 /\ x.b < 20

\* what int(RGB.random()) can be
RandomResults == { v \in RandintSamples : ~Dark(from_int(v)) }

notRandom ==
    << strip, strip0, frame, renders, exchanges, err, lt_func, stack, oob,
       rainVars, writes, k, transVars, steps, wipeVars, step >>

\* a call of RGB.random(), line 86
RandomCall ==
    /\ Running("idle")
    /\ effect' = "random"
    /\ pc' = "start"
    /\ value' = from_int(0)
    /\ UNCHANGED << returned, rejected, notRandom >>

\* lines 87 and 89: the loop test, and the return
RandomTest ==
    /\ Running("random") /\ pc \in { "start", "while" }
    /\ IF Dark(value)
       THEN /\ pc' = "draw"
            /\ rejected' = IF pc = "while"
                           THEN rejected \cup { to_int(value) }
                           ELSE rejected
            /\ UNCHANGED << effect, returned >>
       ELSE /\ returned' = returned \cup { to_int(value) }
            /\ effect' = "idle"
            /\ UNCHANGED << pc, rejected >>
    /\ UNCHANGED << value, notRandom >>

\* line 88
RandomDraw ==
    /\ Running("random") /\ pc = "draw"
    /\ \E v \in RandintSamples : value' = from_int(v)
    /\ pc' = "while"
    /\ UNCHANGED << effect, returned, rejected, notRandom >>

RandomNext == RandomCall \/ RandomTest \/ RandomDraw

(***************************************************************************)
(* random_rain                                                             *)
(***************************************************************************)
\* Shuffles drawing each position independently
ShufflesWithRepeats(n) == [1..n -> 0..(n - 1)]

\* random.shuffle(list(range(n))): the permutations of 0..n-1
Shuffles(n) ==
    { p \in [1..n -> 0..(n - 1)] :
        \A a, b \in 1..n : a # b => p[a] # p[b] }

\* random.shuffle(pixels)
ShuffledLists(px) ==
    { [n \in 1..Len(px) |-> px[p[n] + 1]] : p \in Shuffles(Len(px)) }

notRain ==
    << strip0, exchanges, lt_func, stack, oob, pixels, transVars, steps,
       wipeVars, randVars, step >>

\* lines 135-136
RainShuffle ==
    /\ Running("random_rain") /\ pc = "start"
    /\ positions' \in Shuffles(Len(strip))
    /\ k' = 0
    /\ pc' = "for"
    /\ UNCHANGED << strip, frame, renders, err, effect, writes, notRain >>

\* lines 137-138: the next position, or the end of the loop
RainFor ==
    /\ Running("random_rain") /\ pc = "for"
    /\ IF k < Len(positions)
       THEN LET pos == positions[k + 1]
            IN  IF pixels # << >> /\ ~IndexOk(pixels, pos)
                THEN /\ err' = "IndexError"
                     /\ UNCHANGED << strip, writes, pc, effect >>
                ELSE /\ \E v \in IF pixels # << >>
                                 THEN { GetItem(pixels, pos) }
                                 ELSE RandomResults :
                            strip' = SetItem(strip, pos, v)
                     /\ writes' = [writes EXCEPT ![pos + 1] = @ + 1]
                     /\ pc' = "show"
                     /\ UNCHANGED << err, effect >>
       ELSE /\ effect' = "idle"
            /\ UNCHANGED << strip, writes, pc, err >>
    /\ UNCHANGED << frame, renders, positions, k, notRain >>

\* lines 139-140: strip.show(); time.sleep(sleep)
RainShow ==
    /\ Running("random_rain") /\ pc = "show"
    /\ frame' = strip
    /\ renders' = renders + 1
    /\ k' = k + 1
    /\ pc' = "for"
    /\ UNCHANGED << strip, err, effect, positions, writes, notRain >>

RainNext == RainShuffle \/ RainFor \/ RainShow

(***************************************************************************)
(* random_wipe                                                             *)
(***************************************************************************)
\* lines 144-145
RwShuffle ==
    /\ Running("random_wipe") /\ pc = "start"
    /\ positions' \in Shuffles(Len(strip))
    /\ k' = 0
    /\ pc' = "for"
    /\ UNCHANGED << strip, frame, renders, err, effect, writes, notRain >>

\* lines 146-147: the next position, or the end of the loop
RwFor ==
    /\ Running("random_wipe") /\ pc = "for"
    /\ IF k < Len(positions)
       THEN /\ strip' = SetItem(strip, positions[k + 1], wipe_c)
            /\ pc' = "show"
            /\ UNCHANGED effect
       ELSE /\ effect' = "idle"
            /\ UNCHANGED << strip, pc >>
    /\ UNCHANGED << frame, renders, err, positions, writes, k, notRain >>

\* line 148
RwShow ==
    /\ Running("random_wipe") /\ pc = "show"
    /\ frame' = strip
    /\ renders' = renders + 1
    /\ k' = k + 1
    /\ pc' = "for"
    /\ UNCHANGED << strip, err, effect, positions, writes, notRain >>

RwNext == RwShuffle \/ RwFor \/ RwShow

(***************************************************************************)
(* wipe and slow_transition                                                *)
(***************************************************************************)
\* _close_in going to the target in one step
close_in_jump(from_, to) == to

_close_in(from_, to) ==
    IF from_ = to THEN to
    ELSE from_ + (IF from_ < to THEN 1 ELSE -1)

notTrans ==
    << strip0, exchanges, err, lt_func, stack, oob, rainVars, writes, wipeVars,
       randVars, step >>

\* lines 165-167: the defaults, then the first wipe
StStart ==
    /\ Running("slow_transition") /\ pc = "start"
    /\ c' \in IF args.c = << >>
              THEN { from_int(v) : v \in RandomResults }
              ELSE { args.c[1] }
    /\ c_next' = IF args.c_next = << >> THEN invert(c') ELSE args.c_next[1]
    /\ c_from' = c'
    /\ k' = 0
    /\ pc' = "wipe"
    /\ UNCHANGED << strip, frame, renders, effect, args, steps, notTrans >>

\* wipe, lines 127-128: for i in range(len(strip)): strip[i] = color
WipeWrite ==
    /\ Running("slow_transition") /\ pc = "wipe" /\ k < Len(strip)
    /\ strip' = SetItem(strip, k, to_int(c))
    /\ k' = k + 1
    /\ UNCHANGED << frame, renders, effect, pc, transVars, steps, notTrans >>

\* wipe, line 129: strip.show()
WipeShow ==
    /\ Running("slow_transition") /\ pc = "wipe" /\ k = Len(strip)
    /\ frame' = strip
    /\ renders' = renders + 1
    /\ pc' = "while"
    /\ UNCHANGED << strip, effect, k, transVars, steps, notTrans >>

\* lines 168-174: one step towards c_next and the next wipe, or the return
StLoop ==
    /\ Running("slow_transition") /\ pc = "while"
    /\ IF c # c_next
       THEN /\ c' = RGB(_close_in(c.r, c_next.r),
                        _close_in(c.g, c_next.g),
                        _close_in(c.b, c_next.b))
            /\ steps' = steps + 1
            /\ k' = 0
            /\ pc' = "wipe"
            /\ UNCHANGED effect
       ELSE /\ effect' = "idle"
            /\ UNCHANGED << c, steps, k, pc >>
    /\ UNCHANGED << strip, frame, renders, args, c_next, c_from, notTrans >>

StNext == StStart \/ WipeWrite \/ WipeShow \/ StLoop

(***************************************************************************)
(* pride: thirty calls in a fixed order; step counts the calls made.       *)
(***************************************************************************)
\* _get_flag_pixels with the scaled values of all_the_colors
get_flag_pixels_scaled(num) ==
    [n \in 1..num |-> (n - 1) * (16777215 \div num)]

\* FLAG_COLORS[int(len(FLAG_COLORS) * (i / num))]; the float product is
\* below 11 and its integer part is the exact quotient for every num < 1500
_get_flag_pixels(num) ==
    [n \in 1..num |-> FLAG_COLORS[(Len(FLAG_COLORS) * (n - 1)) \div num + 1]]

\* the bookkeeping of a call: nothing rendered, exchanged or written yet
Begin(name) ==
    /\ effect' = name
    /\ pc' = "start"
    /\ strip0' = strip
    /\ renders' = 0
    /\ exchanges' = 0
    /\ oob' = FALSE
    /\ k' = 0
    /\ writes' = [n \in 1..Len(strip) |-> 0]
    /\ steps' = 0
    /\ step' = step + 1

RainCalls == { 0, 4, 28 }

SortCalls == { 1, 2, 3, 5, 29 }

WipeCalls == 6..16

TransitionCalls == 17..27

\* lines 225-226, 230-231, 244-245
PrideRain ==
    /\ Running("idle") /\ step \in RainCalls
    /\ pixels' \in IF step = 0
                   THEN { _get_flag_pixels(Len(strip)) }
                   ELSE ShuffledLists(pixels)
    /\ positions' = << >>
    /\ Begin("random_rain")
    /\ UNCHANGED << strip, frame, err, lt_func, stack, transVars, wipeVars,
                    randVars >>

\* the comparator of each quicksort call of pride
PrideComparator(n) ==
    CASE n = 1 -> Cmp("hsi")
      [] n = 2 -> Cmp("int_gt")
      [] n = 3 -> Cmp("false")
      [] n \in { 5, 29 } -> Cmp("flag_index")

\* lines 227-229, 232-236, 246-249
PrideSort ==
    /\ Running("idle") /\ step \in SortCalls
    /\ lt_func' = PrideComparator(step)
    /\ stack' = << TopCall(strip) >>
    /\ Begin("quicksort")
    /\ UNCHANGED << strip, frame, err, rainVars, transVars, wipeVars,
                    randVars >>

\* lines 238-239: for c in FLAG_COLORS: random_wipe(strip, c)
PrideWipe ==
    /\ Running("idle") /\ step \in WipeCalls
    /\ wipe_c' = FLAG_COLORS[step - 5]
    /\ positions' = << >>
    /\ Begin("random_wipe")
    /\ UNCHANGED << strip, frame, err, lt_func, stack, pixels, transVars,
                    randVars >>

\* lines 240-243: each transition starts where the one before ended
PrideTransition ==
    /\ Running("idle") /\ step \in TransitionCalls
    /\ LET n == step - 16
           last == IF n = 1 THEN Len(FLAG_COLORS) ELSE n - 1
       IN  args' = [c |-> << from_int(FLAG_COLORS[last]) >>,
                    c_next |-> << from_int(FLAG_COLORS[n]) >>]
    /\ Begin("slow_transition")
    /\ UNCHANGED << strip, frame, err, lt_func, stack, rainVars, c, c_next,
                    c_from, wipeVars, randVars >>

PrideNext ==
    \/ PrideRain \/ PrideSort \/ PrideWipe \/ PrideTransition
    \/ RainNext \/ QsNext \/ RwNext \/ StNext

(***************************************************************************)
(* Runs of one quicksort call on a buffer of colours of SortValues.        *)
(***************************************************************************)
SortValues == { FLAG_COLORS[6], FLAG_COLORS[9], FLAG_COLORS[10] }

SortColours == { from_int(v) : v \in SortValues }

SeqsUpTo(S, n) == UNION { [1..m -> S] : m \in 0..n }

\* the lambdas of pride and all_the_colors, and the default
ShowComparators ==
    { Cmp("hsi"), Cmp("int_lt"), Cmp("int_gt"), Cmp("tuple_gt"),
      Cmp("false"), Cmp("flag_index") }

AllRelations == { CmpRel(R) : R \in SUBSET (SortColours \X SortColours) }

Holds(f, a, b) == ~LtRaises(f, a, b) /\ Lt(f, a, b)

Irreflexive(f) == \A a \in SortColours : ~Holds(f, a, a)

Transitive(f) ==
    \A a, b, d \in SortColours :
        Holds(f, a, b) /\ Holds(f, b, d) => Holds(f, a, d)

\* incomparability is transitive
IncompTransitive(f) ==
    \A a, b, d \in SortColours :
        (/\ ~Holds(f, a, b) /\ ~Holds(f, b, a)
         /\ ~Holds(f, b, d) /\ ~Holds(f, d, b))
        => (~Holds(f, a, d) /\ ~Holds(f, d, a))

StrictWeakOrder(f) == Irreflexive(f) /\ Transitive(f) /\ IncompTransitive(f)

ConstantFalse(f) == \A a, b \in SortColours : ~Holds(f, a, b)

\* the state at the call of an effect on buffer s
InitEffect(s, name) ==
    /\ strip = s
    /\ strip0 = s
    /\ frame = s
    /\ renders = 0
    /\ exchanges = 0
    /\ err = "none"
    /\ effect = name
    /\ pc = "start"
    /\ oob = FALSE
    /\ k = 0
    /\ writes = [n \in 1..Len(s) |-> 0]
    /\ steps = 0
    /\ step = 0

NoSort == lt_func = Cmp("false") /\ stack = << >>

NoRain == positions = << >> /\ pixels = << >>

NoTransition ==
    /\ args = [c |-> << >>, c_next |-> << >>]
    /\ c = from_int(0) /\ c_next = from_int(0) /\ c_from = from_int(0)

NoRandom == value = from_int(0) /\ returned = {} /\ rejected = {}

NoWipe == wipe_c = 0

InitSortOf(lens, cmps) ==
    \E s \in SeqsUpTo(SortValues, lens), f \in cmps :
        /\ InitEffect(s, "quicksort")
        /\ lt_func = f
        /\ stack = << TopCall(s) >>
        /\ NoRain
        /\ NoTransition
        /\ NoWipe
        /\ NoRandom

StrictWeakOrders ==
    { f \in ShowComparators \cup AllRelations : StrictWeakOrder(f) }

Irreflexives == { f \in ShowComparators \cup AllRelations : Irreflexive(f) }

ConstantFalses ==
    { f \in ShowComparators \cup AllRelations : ConstantFalse(f) }

OrderingComparators == ShowComparators \cup StrictWeakOrders

InitSort == InitSortOf(MaxLen, OrderingComparators)

InitSortAny == InitSortOf(MaxLenAny, ShowComparators \cup AllRelations)

InitSortFalse == InitSortOf(MaxLenFalse, { Cmp("false") })

\* one quicksort under the comparators of the shows and every strict weak order
SpecSort == InitSort /\ [][QsNext]_vars

\* one quicksort under every boolean function of two colours
SpecSortAny == InitSortAny /\ [][QsNext]_vars

\* the interpreter runs the next statement as long as there is one
FairSpecAny == SpecSortAny /\ WF_vars(QsNext)

FairSpecFalse == InitSortFalse /\ [][QsNext]_vars /\ WF_vars(QsNext)

Returned == effect = "idle" /\ err = "none"

Count(s, v) == Cardinality({ n \in 1..Len(s) : s[n] = v })

SameMultiset(s, t) ==
    /\ Len(s) = Len(t)
    /\ \A v \in Range(s) \cup Range(t) : Count(s, v) = Count(t, v)

(***************************************************************************)
(* C1: when quicksort returns under a strict weak ordering, no position k  *)
(* of the buffer has lt(strip[k+1], strip[k]).                             *)
(***************************************************************************)
C1_Sorted ==
    (Returned /\ lt_func \in StrictWeakOrders)
    => \A n \in 1..(Len(strip) - 1) :
          ~Holds(lt_func, from_int(strip[n + 1]), from_int(strip[n]))

C1_Witness ==
    /\ Returned
    /\ lt_func = Cmp("int_lt")
    /\ Len(strip) = MaxLen
    /\ Cardinality(Range(strip)) = 3
    /\ strip # strip0
    /\ \A n \in 1..(Len(strip) - 1) : strip[n] <= strip[n + 1]

(***************************************************************************)
(* C2: in every state of a sort, under any comparator, the buffer holds    *)
(* the multiset of values it held at the call and has the same length.     *)
(***************************************************************************)
C2_Permutation == effect \in { "quicksort", "idle" } => SameMultiset(strip, strip0)

C2_Witness ==
    /\ Returned
    /\ lt_func \in ConstantFalses
    /\ exchanges >= 1
    /\ strip # strip0

Size(f) == f.to_index - f.from_index

RangesShrink ==
    \A n \in 2..Len(stack) :
        /\ stack[n].from_index >= stack[n - 1].from_index
        /\ stack[n].to_index <= stack[n - 1].to_index
        /\ Size(stack[n]) < Size(stack[n - 1])

(***************************************************************************)
(* C3: under the constant-false comparator the sort returns, and every     *)
(* recursive call is on a range strictly inside its caller's range.        *)
(***************************************************************************)
C3_FalseTerminates == []RangesShrink /\ <>Returned

C3_Witness ==
    /\ Returned
    /\ lt_func = Cmp("false")
    /\ Len(strip) = MaxLenFalse
    /\ exchanges >= 3

(***************************************************************************)
(* C4 as stated: under every boolean function of two colours the sort      *)
(* returns.                                                                *)
(***************************************************************************)
C4_AnyTerminates == <>Returned

(***************************************************************************)
(* C4 amended: under every comparator that is never true of a colour and   *)
(* itself, transitive or not, the sort raises nothing, every recursive     *)
(* call is on a range strictly inside its caller's, and the sort returns.  *)
(***************************************************************************)
C4_IrreflexiveTerminates ==
    /\ [](lt_func \in Irreflexives => (err = "none" /\ RangesShrink))
    /\ (lt_func \in Irreflexives => <>Returned)

C4_Witness ==
    /\ Returned
    /\ lt_func \in Irreflexives
    /\ ~Transitive(lt_func)
    /\ Len(strip) = MaxLenAny
    /\ exchanges >= 1

AtShow == stack # << >> /\ top.pc = "show"

(***************************************************************************)
(* C5: every exchange is followed by one show() before the next buffer     *)
(* write and nothing else renders: between an exchange and its show the    *)
(* exchanges are one ahead, otherwise renders = exchanges and the frame    *)
(* shown is the buffer; a buffer of length <= 1 is never rendered.         *)
(***************************************************************************)
C5_RenderPerExchange ==
    effect \in { "quicksort", "idle" } =>
        /\ IF AtShow
           THEN exchanges = renders + 1
           ELSE exchanges = renders /\ frame = strip
        /\ Len(strip) <= 1 => renders = 0

C5_Witness ==
    /\ Returned
    /\ renders >= 2
    /\ renders = exchanges
    /\ strip # strip0

(***************************************************************************)
(* C10: under the comparators of the shows (strict weak orderings and the  *)
(* constant-false comparator) every index a quicksort call reads or writes *)
(* lies in its [from_index, to_index], and no access raises IndexError.    *)
(***************************************************************************)
C10_InRange ==
    lt_func \in StrictWeakOrders \cup ConstantFalses
    => (~oob /\ err # "IndexError"
        /\ \A n \in 1..Len(stack) :
             stack[n].from_index < stack[n].to_index
             => (0 <= stack[n].from_index /\ stack[n].to_index < Len(strip)))

C10_Witness ==
    /\ Returned
    /\ ~oob
    /\ Len(strip) = MaxLen
    /\ exchanges >= 2
    /\ lt_func.kind = "rel"
    /\ lt_func.rel # {}

(***************************************************************************)
(* Runs of one slow_transition call. The channels of the given colours are *)
(* 0..MaxChan; a colour left out is random, a target left out its inverse. *)
(***************************************************************************)
TransColours == { RGB(r, g, b) : r, g, b \in 0..MaxChan }

Given(S) == { << >> } \cup { << x >> : x \in S }

\* a buffer of black and white pixels in turn
Striped(len) == [n \in 1..len |-> IF n % 2 = 1 THEN 0 ELSE 16777215]

InitTrans ==
    \E s \in { Striped(len) : len \in 0..MaxLenTrans },
       a \in Given(TransColours), b \in Given(TransColours) :
        /\ InitEffect(s, "slow_transition")
        /\ args = [c |-> a, c_next |-> b]
        /\ c = from_int(0) /\ c_next = from_int(0) /\ c_from = from_int(0)
        /\ NoSort
        /\ NoRain
        /\ NoWipe
        /\ NoRandom

SpecTrans == InitTrans /\ [][StNext]_vars

FairSpecTrans == SpecTrans /\ WF_vars(StNext)

Abs(n) == IF n < 0 THEN -n ELSE n

MaxDiff(a, b) == Max3(Abs(a.r - b.r), Abs(a.g - b.g), Abs(a.b - b.b))

Uniform(s, v) == \A n \in 1..Len(s) : s[n] = v

TransitionFrames ==
    effect \in { "slow_transition", "idle" } =>
        /\ renders >= 1 => \A m, n \in 1..Len(frame) : frame[m] = frame[n]
        /\ pc = "while" => (Uniform(frame, to_int(c)) /\ frame = strip)
        /\ (pc = "while" /\ renders = 1) => c = c_from
        /\ pc # "start" =>
              /\ args.c # << >> => c_from = args.c[1]
              /\ args.c_next # << >> => c_next = args.c_next[1]
        /\ pc = "while" => renders = steps + 1
        /\ effect = "idle" =>
              /\ err = "none"
              /\ Uniform(strip, to_int(c_next))
              /\ frame = strip
              /\ steps = MaxDiff(c_from, c_next)

(***************************************************************************)
(* C6: slow_transition from A to B returns, with the buffer filled with B  *)
(* after max(|A.r-B.r|, |A.g-B.g|, |A.b-B.b|) steps, and every frame it     *)
(* renders, the first fill with A and one per step, is of one colour.      *)
(***************************************************************************)
C6_Transition == []TransitionFrames /\ <>Returned

C6_Witness ==
    /\ Returned
    /\ args.c # << >> /\ args.c_next # << >>
    /\ Len(strip) = MaxLenTrans
    /\ strip0 = Striped(MaxLenTrans)
    /\ steps = MaxChan
    /\ c_from.r # c_from.g
    /\ Abs(c_from.g - c_next.g) < MaxChan

(***************************************************************************)
(* Runs of one random_rain call, with targets and without.                 *)
(***************************************************************************)
RainTargets == { FLAG_COLORS[6], FLAG_COLORS[9] }

InitRain ==
    \E s \in SeqsUpTo({ 0, FLAG_COLORS[1] }, MaxLenRain) :
      \E px \in { << >> } \cup [1..Len(s) -> RainTargets] :
        /\ InitEffect(s, "random_rain")
        /\ positions = << >>
        /\ pixels = px
        /\ NoSort
        /\ NoTransition
        /\ NoWipe
        /\ NoRandom

SpecRain == InitRain /\ [][RainNext]_vars

Written == { n \in 1..Len(writes) : writes[n] > 0 }

(***************************************************************************)
(* C7: random_rain writes every position exactly once and renders once     *)
(* after each write, N renders in all; with targets given the final        *)
(* buffer is the target list.                                              *)
(***************************************************************************)
C7_Rain ==
    effect \in { "random_rain", "idle" } =>
        /\ \A n \in 1..Len(strip) : writes[n] <= 1
        /\ Cardinality(Written) = renders + (IF pc = "show" THEN 1 ELSE 0)
        /\ pc = "for" => (renders = k /\ frame = strip)
        /\ \A n \in 1..Len(strip) :
              writes[n] = 0 => strip[n] = strip0[n]
        /\ effect = "idle" =>
              /\ err = "none"
              /\ \A n \in 1..Len(strip) : writes[n] = 1
              /\ renders = Len(strip)
              /\ pixels # << >> => strip = pixels

C7_Witness ==
    /\ Returned
    /\ Len(strip) = MaxLenRain
    /\ renders = MaxLenRain
    /\ pixels # << >>
    /\ strip = pixels
    /\ positions[1] = MaxLenRain - 1
    /\ \A n \in 1..Len(strip) : strip[n] # strip0[n]

(***************************************************************************)
(* Repeated calls of RGB.random.                                           *)
(***************************************************************************)
InitRandom ==
    /\ InitEffect(<< >>, "idle")
    /\ NoSort
    /\ NoRain
    /\ NoTransition
    /\ NoWipe
    /\ NoRandom

SpecRandom == InitRandom /\ [][RandomNext]_vars

Below20(v) ==
    (v \div 65536) % 256 < 20 /\ (v \div 256) % 256 < 20 /\ v % 256 < 20

(***************************************************************************)
(* C8 as stated: RGB.random is uniform over all 2^24 packed values, so     *)
(* whatever value randint draws is a possible result: no draw is           *)
(* discarded.                                                              *)
(***************************************************************************)
C8_EveryValue == rejected = {}

(***************************************************************************)
(* C8 amended: RGB.random returns the packed values that have a channel    *)
(* of at least 20, and only those: a draw with all three channels below 20 *)
(* is discarded and drawn again, every other draw is returned.             *)
(***************************************************************************)
C8_NotDark ==
    /\ \A v \in returned : v \in 0..16777215 /\ ~Below20(v)
    /\ \A v \in rejected : Below20(v)

C8_Witness ==
    /\ effect = "idle"
    /\ returned = { v \in RandintSamples : ~Below20(v) }
    /\ rejected = { v \in RandintSamples : Below20(v) }

(***************************************************************************)
(* Runs of pride, called on a buffer that holds palette colours, other     *)
(* colours and black.                                                      *)
(***************************************************************************)
InitPride ==
    \E s \in SeqsUpTo({ 0, 1310720, FLAG_COLORS[1] }, MaxLenPride) :
        /\ InitEffect(s, "idle")
        /\ NoSort
        /\ NoRain
        /\ NoTransition
        /\ NoWipe
        /\ NoRandom

SpecPride == InitPride /\ [][PrideNext]_vars

(***************************************************************************)
(* C9: in pride, whenever the palette-index comparator runs, the buffer    *)
(* and the pivot hold palette colours only, so the index lookup never      *)
(* raises ValueError.                                                      *)
(***************************************************************************)
C9_PaletteOnly ==
    /\ err # "ValueError"
    /\ (effect = "quicksort" /\ lt_func.kind = "flag_index") =>
          /\ Range(strip) \subseteq Palette
          /\ \A n \in 1..Len(stack) :
                stack[n].pc # "entry" => to_int(stack[n].pivot) \in Palette

C9_Witness ==
    /\ Returned
    /\ step = 30
    /\ lt_func.kind = "flag_index"
    /\ Len(strip) = MaxLenPride
    /\ exchanges >= 1
    /\ strip # strip0

====
